---- MODULE Spec2Model ----
(***************************************************************************)
(* Model of wireguard-config-sidecar (src/main.go): main, buildNodes,      *)
(* getPrivateKey, buildPostUp and buildNodeFile.                           *)
(*                                                                         *)
(* Go strings are TLA+ strings (built with \o); a script (what            *)
(* script.Builder.ToOneLine returns) is a sequence of string tokens, the   *)
(* commands with the separator token between them, so the empty string is  *)
(* the empty sequence.  A Go pointer or optional proto3 field is None      *)
(* (nil) or Some(v).  A rendered file is the sequence of the lines that    *)
(* were added to the node builder.                                         *)
(***************************************************************************)
EXTENDS Integers, Sequences, FiniteSets, TLC

VARIABLES
    server,      \* the *wg_pb.Server read by readConfig
    env,         \* value of the environment variable EnvName ("" when unset)
    pc,          \* position in main / buildNodes
    pk,          \* buildNodes: pk
    pub,         \* buildNodes: pub
    cidr,        \* buildNodes: cidr (the parsed range), None before parsing
    serverNode,  \* buildNodes: serverNode (named result), None = nil
    userNodes,   \* buildNodes: userNodes (named result), None = nil
    idx,         \* buildNodes: loop index over server.Users (0-based)
    ret,         \* what buildNodes returned, None while running or on panic
    status,      \* "running", "ok", "failed" (os.Exit(1)) or "panic"
    wgConf,      \* content of /etc/wireguard/wg0.conf, None if never written
    stdout,      \* what main printed, a sequence of lines
    prev,        \* input and result of the previous run, None if there was none
    flipped      \* index of the user whose revoked flag was edited, 0 if none

vars == <<server, env, pc, pk, pub, cidr, serverNode, userNodes, idx, ret,
          status, wgConf, stdout, prev, flipped>>

-----------------------------------------------------------------------------
(* Bounds of the model *)

MaxUsers == 3

MaxRoutes == 2

MaxDns == 1

(* The host mask of a member address, "/32" *)

HostMask == 32

-----------------------------------------------------------------------------
(* Option values: nil pointers and absent optional fields *)

None == << >>

Some(v) == <<v>>

IsSome(o) == Len(o) = 1

Val(o) == o[1]

RECURSIVE Pow2(_)
Pow2(n) == IF n = 0 THEN 1 ELSE 2 * Pow2(n - 1)

(* strings.Join(elems, sep) *)
RECURSIVE Join(_, _)
Join(elems, sep) ==
    IF Len(elems) = 0 THEN ""
    ELSE IF Len(elems) = 1 THEN elems[1]
    ELSE elems[1] \o sep \o Join(Tail(elems), sep)

-----------------------------------------------------------------------------
(* External collaborators: key pairs (wgtypes), CIDR arithmetic (cidr),    *)
(* script builder (script)                                                 *)

EnvName == "WG_PRIVATE_KEY"

(* os.Getenv *)
Getenv(name) == IF name = EnvName THEN env ELSE ""

(* wgtypes.ParseKey: only a base64 32-byte key parses *)
ValidKeys == {"privA"}

ParseKeyOk(s) == s \in ValidKeys

(* wgtypes.Key.PublicKey().String() *)
PublicKey(k) == IF k = "privA" THEN "pubA" ELSE "pub?"

(* An address of the model is an offset n inside 10.0.0.0/24. *)
IpString(n) == "10.0.0." \o ToString(n)

(* cidr.Parse: the input is ip/bits; malformed when bits is no prefix      *)
(* length; the range is normalised to its network address.                 *)
CidrParseOk(c) == c.bits >= 0 /\ c.bits <= 32

CidrParse(c) ==
    LET size == Pow2(32 - c.bits)
    IN [network |-> c.ip - (c.ip % size), bits |-> c.bits, size |-> size]

(* cidr.First: the first usable address of the range *)
First(c) == c.network + 1

(* cidr.Mask: the prefix length *)
Mask(c) == ToString(c.bits)

(* cidr.GetNth: a pure function of (cidr, ordinal); ordinal 0 is First *)
GetNth(c, n) == First(c) + n

InRange(c, a) == a >= c.network /\ a < c.network + c.size

(* script.Builder.ToOneLine: the commands with the separator between them *)
Sep == "; "

RECURSIVE ToOneLine(_)
ToOneLine(lines) ==
    IF Len(lines) = 0 THEN << >>
    ELSE IF Len(lines) = 1 THEN <<lines[1]>>
    ELSE <<lines[1], Sep>> \o ToOneLine(Tail(lines))

-----------------------------------------------------------------------------
(* getPrivateKey (src/main.go 155-167).  pk is Some(message) here; a nil  *)
(* message panics at pk.Store and is handled by the caller's action.       *)

getPrivateKey(p) ==
    IF p.store = "EnvVar"
    THEN IF Getenv(p.envVar) = ""
         THEN [val |-> "", err |-> Some("env var " \o p.envVar \o " is empty")]
         ELSE [val |-> Getenv(p.envVar), err |-> None]
    ELSE [val |-> "", err |-> Some("unknown private key store")]

-----------------------------------------------------------------------------
(* buildPostUp (src/main.go 169-196) *)

CreateChain == "iptables -N wgroute || echo \"wgroute chain already exists\""

AttachForward == "iptables -C FORWARD -i wg0 -j wgroute || iptables -A FORWARD -i wg0 -j wgroute"

Masquerade == "iptables -t nat -A POSTROUTING -o eth0 -j MASQUERADE"

FlushChain == "iptables -F wgroute"

AcceptRule(route) == "iptables -A wgroute -d " \o route \o " -i wg0 -o eth0 -j ACCEPT"

RejectRule == "iptables -A wgroute -j REJECT --reject-with icmp-host-prohibited"

DoneMarker == "echo \"Done\""

AcceptRules(accept) == [i \in 1..Len(accept) |-> AcceptRule(accept[i])]

PostUpLinesFlushLast(accept) ==
    <<CreateChain, AttachForward, Masquerade>>
        \o AcceptRules(accept)
        \o <<FlushChain, RejectRule, DoneMarker>>

PostUpLines(accept) ==
    <<CreateChain, AttachForward, Masquerade, FlushChain>>
        \o AcceptRules(accept)
        \o <<RejectRule, DoneMarker>>

buildPostUp(pu) ==
    IF pu = None THEN << >>
    ELSE ToOneLine(PostUpLines(Val(pu).accept))

-----------------------------------------------------------------------------
(* buildNodeFile (src/main.go 198-244) *)

(* c.AddLine(fmt.Sprintf("%s = %s", key, val)) *)
Line(key, val) == [key |-> key, val |-> val]

(* c.AddLine(text) / fmt.Println(text) of a bare text *)
Bare(text) == [key |-> text, val |-> ""]

OptLine(key, o) == IF IsSome(o) THEN <<Line(key, Val(o))>> ELSE << >>

PeerLines(u) ==
    << Bare("[Peer]"),
       Line("PublicKey", u.publicKey),
       Line("Endpoint", u.endpoint),
       Line("AllowedIPs", u.allowedIps),
       Bare("") >>

RECURSIVE PeersLines(_)
PeersLines(peers) ==
    IF Len(peers) = 0 THEN << >>
    ELSE PeerLines(peers[1]) \o PeersLines(Tail(peers))

InterfaceTail(i) ==
    OptLine("PostDown", i.postDown) \o OptLine("PreDown", i.preDown)

InterfaceHead(i) ==
    << Bare("[Interface]"), Line("Address", i.address) >>
        \o OptLine("ListenPort", IF IsSome(i.listenPort)
                                 THEN Some(ToString(Val(i.listenPort)))
                                 ELSE None)
        \o OptLine("PrivateKey", i.privateKey)
        \o OptLine("DNS", i.dns)
        \o OptLine("PreUp", i.preUp)
        \o OptLine("PostUp", i.postUp)

buildNodeFile(n) ==
    InterfaceHead(n.interface) \o InterfaceTail(n.interface)
        \o <<Bare("")>> \o PeersLines(n.peers)

-----------------------------------------------------------------------------
(* Inputs: the server.yml documents the model draws from *)

RouteName(i) == "10." \o ToString(i) \o ".0.0/16"

DnsName(i) == "1.1.1." \o ToString(i)

UserKey(i) == "userKey" \o ToString(i)

PrivateKeyInputs ==
    { None,
      Some([store |-> "unset", envVar |-> ""]),
      Some([store |-> "other", envVar |-> ""]),
      Some([store |-> "EnvVar", envVar |-> EnvName]) }

CidrInputs ==
    { [ip |-> 0, bits |-> 33],
      [ip |-> 8, bits |-> 30],
      [ip |-> 5, bits |-> 29] }

RoutesInputs ==
    {None} \cup { Some([accept |-> [i \in 1..n |-> RouteName(i)]]) : n \in 0..MaxRoutes }

DnsInputs == { [i \in 1..n |-> DnsName(i)] : n \in 0..MaxDns }

(* A user carries its own key or repeats the first user's key. *)
UsersOfLen(n) ==
    { u \in [1..n -> [publicKey : {UserKey(i) : i \in 1..n}, revoked : BOOLEAN]] :
        \A i \in 1..n : u[i].publicKey \in {UserKey(1), UserKey(i)} }

UsersInputs == UNION { UsersOfLen(n) : n \in 0..MaxUsers }

ServerInputs ==
    [ privateKey : PrivateKeyInputs,
      listenPort : {51820},
      cidr       : CidrInputs,
      routes     : RoutesInputs,
      endpoint   : {"vpn.example.com"},
      dns        : DnsInputs,
      users      : UsersInputs ]

EnvInputs == {"", "not-a-key", "privA"}

NoPrev == None

(* The state at the start of main, after readConfig returned `server` *)
Start ==
    /\ pc = "getPrivateKey"
    /\ pk = ""
    /\ pub = ""
    /\ cidr = None
    /\ serverNode = None
    /\ userNodes = None
    /\ idx = 0
    /\ ret = None
    /\ status = "running"
    /\ wgConf = None
    /\ stdout = << >>

Init ==
    /\ server \in ServerInputs
    /\ env \in EnvInputs
    /\ (server.privateKey = None \/ Val(server.privateKey).store # "EnvVar") => env = ""
    /\ prev = NoPrev
    /\ flipped = 0
    /\ Start

-----------------------------------------------------------------------------
(* buildNodes (src/main.go 89-153) with main's handling of its result *)

(* return nil, nil, err; main logs the error and exits 1 *)
ReturnError(e) ==
    /\ ret' = Some([serverNode |-> None, userNodes |-> None, err |-> e])
    /\ status' = "failed"
    /\ pc' = "exit"

(* a run-time panic (nil dereference): the process dies, nothing returns *)
Panic ==
    /\ status' = "panic"
    /\ pc' = "exit"

GetPrivateKey ==
    /\ pc = "getPrivateKey"
    /\ IF server.privateKey = None
       THEN /\ Panic
            /\ UNCHANGED <<pk, ret>>
       ELSE LET r == getPrivateKey(Val(server.privateKey))
            IN IF IsSome(r.err)
               THEN /\ ReturnError(r.err)
                    /\ UNCHANGED pk
               ELSE /\ pk' = r.val
                    /\ pc' = "parseKey"
                    /\ UNCHANGED <<ret, status>>
    /\ UNCHANGED <<server, env, pub, cidr, serverNode, userNodes, idx, wgConf,
                   stdout, prev, flipped>>

ParseKey ==
    /\ pc = "parseKey"
    /\ IF ParseKeyOk(pk)
       THEN /\ pub' = PublicKey(pk)
            /\ pc' = "parseCidr"
            /\ UNCHANGED <<ret, status>>
       ELSE /\ ReturnError(Some("wgtypes: failed to parse base64-encoded key"))
            /\ UNCHANGED pub
    /\ UNCHANGED <<server, env, pk, cidr, serverNode, userNodes, idx, wgConf,
                   stdout, prev, flipped>>

ParseCidr ==
    /\ pc = "parseCidr"
    /\ IF CidrParseOk(server.cidr)
       THEN /\ cidr' = Some(CidrParse(server.cidr))
            /\ pc' = "buildServer"
            /\ UNCHANGED <<ret, status>>
       ELSE /\ ReturnError(Some("invalid CIDR address"))
            /\ UNCHANGED cidr
    /\ UNCHANGED <<server, env, pk, pub, serverNode, userNodes, idx, wgConf,
                   stdout, prev, flipped>>

(* lines 107-118: postup, the server node, the empty user list *)
ServerInterface(c, key, postup) ==
    [ address    |-> IpString(First(c)) \o "/" \o Mask(c),
      listenPort |-> Some(server.listenPort),
      privateKey |-> Some(key),
      dns        |-> None,
      preUp      |-> None,
      postUp     |-> Some(postup),
      preDown    |-> None,
      postDown   |-> None ]

BuildServerNode ==
    /\ pc = "buildServer"
    /\ serverNode' = Some([ interface |-> ServerInterface(Val(cidr), pk,
                                                          buildPostUp(server.routes)),
                            peers |-> << >> ])
    /\ userNodes' = Some(<< >>)
    /\ idx' = 0
    /\ pc' = "users"
    /\ UNCHANGED <<server, env, pk, pub, cidr, ret, status, wgConf, stdout,
                   prev, flipped>>

(* lines 120-150: one iteration of the loop over server.Users *)
OrdinalZeroBased(i) == i

OrdinalOfAccepted(i) ==
    Cardinality({m \in 1..i : ~server.users[m].revoked}) + 1

Ordinal(i) == i + 1

MemberAddress(c, i) == IpString(GetNth(c, Ordinal(i))) \o "/" \o ToString(HostMask)

ServerPeerOwnKey(user, ip) ==
    [publicKey |-> pub, allowedIps |-> ip, endpoint |-> ""]

ServerPeer(user, ip) ==
    [publicKey |-> user.publicKey, allowedIps |-> ip, endpoint |-> ""]

MemberNode(c, i) ==
    LET dns == Join(server.dns, ",")
    IN [ interface |->
            [ address    |-> MemberAddress(c, i),
              listenPort |-> None,
              privateKey |-> None,
              dns        |-> IF dns # "" THEN Some(dns) ELSE None,
              preUp      |-> None,
              postUp     |-> None,
              preDown    |-> None,
              postDown   |-> None ],
         peers |->
            << [ publicKey  |-> pub,
                 allowedIps |-> Join(Val(server.routes).accept, ", "),
                 endpoint   |-> server.endpoint \o ":" \o ToString(server.listenPort) ] >> ]

WithPeerInFront(node, peer) == [node EXCEPT !.peers = <<peer>> \o @]

WithPeer(node, peer) == [node EXCEPT !.peers = Append(@, peer)]

UserStep ==
    /\ pc = "users"
    /\ idx < Len(server.users)
    /\ LET user == server.users[idx + 1]
           sn   == Val(serverNode)
       IN IF user.revoked
          THEN /\ idx' = idx + 1
               /\ UNCHANGED <<serverNode, userNodes, status, pc>>
          ELSE /\ serverNode' =
                     Some(WithPeer(sn, ServerPeer(user, MemberAddress(Val(cidr), idx))))
               /\ IF server.routes = None
                  THEN \* server.Routes.Accept dereferences the nil Routes
                       /\ Panic
                       /\ UNCHANGED <<userNodes, idx>>
                  ELSE /\ userNodes' =
                             Some(Append(Val(userNodes), MemberNode(Val(cidr), idx)))
                       /\ idx' = idx + 1
                       /\ UNCHANGED <<status, pc>>
    /\ UNCHANGED <<server, env, pk, pub, cidr, ret, wgConf, stdout, prev,
                   flipped>>

(* line 152 *)
ReturnNodes ==
    /\ pc = "users"
    /\ idx = Len(server.users)
    /\ ret' = Some([serverNode |-> serverNode, userNodes |-> userNodes, err |-> None])
    /\ pc' = "write"
    /\ UNCHANGED <<server, env, pk, pub, cidr, serverNode, userNodes, idx, status,
                   wgConf, stdout, prev, flipped>>

-----------------------------------------------------------------------------
(* main (src/main.go 36-55) *)

(* os.WriteFile opens the file with O_TRUNC, writes and closes.  It fails   *)
(* at the open (the file is left as it was), or after it: the file was     *)
(* truncated and holds a prefix of the new text, from nothing to all of    *)
(* it (a failing close).  Prefixes are taken at line boundaries.           *)
WriteServerConfig ==
    /\ pc = "write"
    /\ LET text == buildNodeFile(Val(Val(ret).serverNode))
       IN \/ /\ wgConf' = Some(text)
             /\ pc' = "print"
             /\ UNCHANGED status
          \/ \* the open failed: log and exit 1
             /\ status' = "failed"
             /\ pc' = "exit"
             /\ UNCHANGED wgConf
          \/ \* the write or the close failed: log and exit 1
             /\ \E n \in 0..Len(text) : wgConf' = Some(SubSeq(text, 1, n))
             /\ status' = "failed"
             /\ pc' = "exit"
    /\ UNCHANGED <<server, env, pk, pub, cidr, serverNode, userNodes, idx, ret,
                   stdout, prev, flipped>>

RECURSIVE PrintUsers(_)
PrintUsers(nodes) ==
    IF Len(nodes) = 0 THEN << >>
    ELSE buildNodeFile(nodes[1]) \o <<Bare("")>> \o PrintUsers(Tail(nodes))

PrintNodes ==
    /\ pc = "print"
    /\ stdout' = <<Bare("Server")>>
                    \o buildNodeFile(Val(Val(ret).serverNode))
                    \o <<Bare(""), Bare(""), Bare("")>>
                    \o <<Bare("Users")>>
                    \o PrintUsers(Val(Val(ret).userNodes))
    /\ status' = "ok"
    /\ pc' = "exit"
    /\ UNCHANGED <<server, env, pk, pub, cidr, serverNode, userNodes, idx, ret,
                   wgConf, prev, flipped>>

(* The operator toggles users[k].revoked in server.yml and runs the tool   *)
(* again (readConfig reads the edited document); the previous run's input  *)
(* and result are remembered for comparison.  The new process starts      *)
(* afresh, but /etc/wireguard/wg0.conf keeps the previous run's text until *)
(* os.WriteFile replaces it.                                               *)
Regenerate(k) ==
    /\ pc = "exit"
    /\ status = "ok"
    /\ flipped = 0
    /\ k \in 1..Len(server.users)
    /\ server' = [server EXCEPT !.users[k].revoked = ~@]
    /\ prev' = Some([server |-> server, ret |-> Val(ret)])
    /\ flipped' = k
    /\ pc' = "getPrivateKey"
    /\ pk' = ""
    /\ pub' = ""
    /\ cidr' = None
    /\ serverNode' = None
    /\ userNodes' = None
    /\ idx' = 0
    /\ ret' = None
    /\ status' = "running"
    /\ stdout' = << >>
    /\ UNCHANGED <<env, wgConf>>

Next ==
    \/ GetPrivateKey
    \/ ParseKey
    \/ ParseCidr
    \/ BuildServerNode
    \/ UserStep
    \/ ReturnNodes
    \/ WriteServerConfig
    \/ PrintNodes
    \/ \E k \in 1..MaxUsers : Regenerate(k)

Spec == Init /\ [][Next]_vars

-----------------------------------------------------------------------------
(* Rendering alone: buildNodeFile applied to an arbitrary node descriptor *)

Opt(v) == {None, Some(v)}

InterfaceInputs ==
    [ address    : {"10.0.0.1/24"},
      listenPort : Opt(51820),
      privateKey : Opt("privA"),
      dns        : Opt("1.1.1.1"),
      preUp      : Opt(<<"echo pre-up">>),
      postUp     : Opt(<<"echo post-up">>),
      preDown    : Opt(<<"echo pre-down">>),
      postDown   : Opt(<<"echo post-down">>) ]

PeersInputs ==
    { << >>,
      << [publicKey |-> "pubA", allowedIps |-> "10.1.0.0/16",
          endpoint |-> "vpn.example.com:51820"] >> }

NodeInputs == [interface : InterfaceInputs, peers : PeersInputs]

(* Only serverNode (the node to render) varies; buildNodes is not run. *)
InitNodeFile ==
    /\ server = [ privateKey |-> None, listenPort |-> 51820,
                  cidr |-> [ip |-> 8, bits |-> 30], routes |-> None,
                  endpoint |-> "vpn.example.com", dns |-> << >>, users |-> << >> ]
    /\ env = ""
    /\ prev = NoPrev
    /\ flipped = 0
    /\ pc = "render"
    /\ pk = ""
    /\ pub = ""
    /\ cidr = None
    /\ serverNode \in {Some(n) : n \in NodeInputs}
    /\ userNodes = None
    /\ idx = 0
    /\ ret = None
    /\ status = "running"
    /\ wgConf = None
    /\ stdout = << >>

RenderNode ==
    /\ pc = "render"
    /\ wgConf' = Some(buildNodeFile(Val(serverNode)))
    /\ pc' = "exit"
    /\ UNCHANGED <<server, env, pk, pub, cidr, serverNode, userNodes, idx, ret,
                   status, stdout, prev, flipped>>

NextNodeFile == RenderNode

SpecNodeFile == InitNodeFile /\ [][NextNodeFile]_vars

-----------------------------------------------------------------------------
(* Vocabulary of the properties *)

(* buildNodes has ended: it returned, or the process died in it *)
Ended == pc \in {"write", "print", "exit"}

(* buildNodes returned (serverNode, userNodes, nil) *)
Built == IsSome(ret) /\ Val(ret).err = None

RetServer == Val(Val(ret).serverNode)

RetUsers == Val(Val(ret).userNodes)

(* 1-based original indices of the non-revoked users, in list order *)
NonRevoked(users) ==
    LET Keep(i) == ~users[i].revoked
    IN SelectSeq([i \in 1..Len(users) |-> i], Keep)

(* allocate(cidr, ordinal) as a /32 host address *)
Allocate(c, ordinal) == IpString(GetNth(c, ordinal)) \o "/32"

(* the member node a successful result r holds for the user at 1-based    *)
(* index i of the input srv (i non-revoked)                                *)
NodeOfUser(srv, r, i) ==
    Val(r.userNodes)[Cardinality({m \in 1..i : ~srv.users[m].revoked})]

Keys(lines) == [i \in 1..Len(lines) |-> lines[i].key]

(* the commands of a one-line script, split on the separator *)
SplitOnSep(script) ==
    LET IsCmd(t) == t # Sep
    IN SelectSeq(script, IsCmd)

-----------------------------------------------------------------------------
(* C1: Address stability under revocation.  In every successful build the  *)
(* member at original 0-based index i has address allocate(cidr, i+1), and *)
(* after users[k].revoked is flipped and the build repeated, every user at *)
(* an index other than k that is non-revoked keeps the address it had.     *)
C1_AddressStability ==
    Built =>
        LET nr == NonRevoked(server.users)
        IN /\ \A j \in 1..Len(RetUsers) :
                j <= Len(nr) =>
                    RetUsers[j].interface.address = Allocate(Val(cidr), nr[j])
           /\ (flipped # 0 /\ IsSome(prev)) =>
                \A i \in 1..Len(server.users) :
                    (i # flipped /\ ~server.users[i].revoked) =>
                        NodeOfUser(server, Val(ret), i).interface.address
                          = NodeOfUser(Val(prev).server, Val(prev).ret, i).interface.address

(* a user before a later, non-revoked member was revoked between two builds *)
C1_Witness ==
    /\ Built
    /\ flipped # 0
    /\ Len(server.users) >= 2
    /\ server.users[flipped].revoked
    /\ \E i \in 1..Len(server.users) : i > flipped /\ ~server.users[i].revoked

(* C2: the server's address is the range's first address with the range   *)
(* mask, and no member node or server peer entry carries that host address *)
C2_ServerAddressNotAMember ==
    Built =>
        LET c == Val(cidr)
        IN /\ RetServer.interface.address = IpString(First(c)) \o "/" \o Mask(c)
           /\ \A j \in 1..Len(RetUsers) :
                RetUsers[j].interface.address # IpString(First(c)) \o "/32"
           /\ \A j \in 1..Len(RetServer.peers) :
                RetServer.peers[j].allowedIps # IpString(First(c)) \o "/32"

C2_Witness ==
    /\ Built
    /\ Len(server.users) >= 1
    /\ ~server.users[1].revoked
    /\ Len(RetUsers) >= 1

(* C3: Peer symmetry.  For every non-revoked user m the server's peers     *)
(* hold exactly one entry with m's public key and the /32 address of m's   *)
(* node, m's node has exactly one peer and it carries the server's derived *)
(* public key; a revoked user has no server peer entry.                    *)
C3_PeerSymmetry ==
    Built =>
        LET peers == RetServer.peers
        IN \A i \in 1..Len(server.users) :
            LET u == server.users[i]
            IN IF u.revoked
               THEN ~ \E p \in 1..Len(peers) :
                        /\ peers[p].publicKey = u.publicKey
                        /\ peers[p].allowedIps = Allocate(Val(cidr), i)
               ELSE LET n == NodeOfUser(server, Val(ret), i)
                    IN /\ Cardinality({p \in 1..Len(peers) :
                              /\ peers[p].publicKey = u.publicKey
                              /\ peers[p].allowedIps = n.interface.address}) = 1
                       /\ Cardinality({q \in 1..Len(n.peers) :
                              n.peers[q].publicKey = PublicKey(env)}) = 1

(* a build with a revoked and a non-revoked user that share a public key *)
C3_Witness ==
    /\ Built
    /\ \E i, k \in 1..Len(server.users) :
         /\ ~server.users[i].revoked
         /\ server.users[k].revoked
         /\ server.users[i].publicKey = server.users[k].publicKey

(* C4: with routes absent the server descriptor has no postUp and the      *)
(* rendered server file has no PostUp line                                 *)
C4_NoPostUpWithoutRoutes ==
    server.routes = None =>
        /\ IsSome(serverNode) => Val(serverNode).interface.postUp = None
        /\ IsSome(wgConf) =>
             \A l \in 1..Len(Val(wgConf)) : Val(wgConf)[l].key # "PostUp"

(* C5: No partial output.  Once buildNodes has ended it has returned       *)
(* either an error with no nodes, or no error with the server node and the *)
(* full member list.                                                       *)
C5_NoPartialOutput ==
    Ended =>
        /\ IsSome(ret)
        /\ \/ /\ IsSome(Val(ret).err)
              /\ Val(ret).serverNode = None
              /\ Val(ret).userNodes = None
           \/ /\ Val(ret).err = None
              /\ IsSome(Val(ret).serverNode)
              /\ IsSome(Val(ret).userNodes)
              /\ Len(RetUsers) = Len(NonRevoked(server.users))

(* C6: Firewall ordering.  The one-line postUp of a spec with routes,      *)
(* split on the separator, is: create chain, attach FORWARD, masquerade,   *)
(* flush, one ACCEPT per routes.accept entry in input order, REJECT, the   *)
(* completion marker.                                                      *)
C6_FirewallOrdering ==
    (IsSome(serverNode) /\ IsSome(server.routes)) =>
        LET script == Val(Val(serverNode).interface.postUp)
            cmds   == SplitOnSep(script)
            accept == Val(server.routes).accept
            n      == Len(accept)
        IN /\ Len(cmds) = n + 6
           /\ Len(script) = 2 * Len(cmds) - 1
           /\ \A t \in 1..Len(script) : (script[t] = Sep) <=> (t % 2 = 0)
           /\ cmds[1] = "iptables -N wgroute || echo \"wgroute chain already exists\""
           /\ cmds[2] = "iptables -C FORWARD -i wg0 -j wgroute || iptables -A FORWARD -i wg0 -j wgroute"
           /\ cmds[3] = "iptables -t nat -A POSTROUTING -o eth0 -j MASQUERADE"
           /\ cmds[4] = "iptables -F wgroute"
           /\ \A r \in 1..n :
                cmds[4 + r] = "iptables -A wgroute -d " \o accept[r]
                                \o " -i wg0 -o eth0 -j ACCEPT"
           /\ cmds[n + 5] = "iptables -A wgroute -j REJECT --reject-with icmp-host-prohibited"
           /\ cmds[n + 6] = "echo \"Done\""

C6_Witness ==
    /\ IsSome(serverNode)
    /\ IsSome(server.routes)
    /\ Len(Val(server.routes).accept) >= 2
    /\ pc = "users"

(* C7: the interface section is [Interface], Address, then the lines of    *)
(* the present optional fields in the order ListenPort, PrivateKey, DNS,   *)
(* PreUp, PostUp, PreDown, PostDown.                                       *)
C7_FixedOrder ==
    (pc = "exit" /\ IsSome(serverNode) /\ IsSome(wgConf)) =>
        LET i == Val(serverNode).interface
            Present(key, o) == IF IsSome(o) THEN <<key>> ELSE << >>
            want == <<"[Interface]", "Address">>
                      \o Present("ListenPort", i.listenPort)
                      \o Present("PrivateKey", i.privateKey)
                      \o Present("DNS", i.dns)
                      \o Present("PreUp", i.preUp)
                      \o Present("PostUp", i.postUp)
                      \o Present("PreDown", i.preDown)
                      \o Present("PostDown", i.postDown)
                      \o <<"">>
        IN SubSeq(Keys(Val(wgConf)), 1, Len(want)) = want

(* C8: when the key source is an environment variable that is unset or     *)
(* empty, or is unset or of an unsupported kind, buildNodes returns an     *)
(* error before any descriptor is built.                                   *)
BadKeySource ==
    \/ server.privateKey = None
    \/ Val(server.privateKey).store # "EnvVar"
    \/ Getenv(Val(server.privateKey).envVar) = ""

C8_KeyResolutionFailsFast ==
    (BadKeySource /\ pc # "getPrivateKey") =>
        /\ status = "failed"
        /\ IsSome(ret)
        /\ IsSome(Val(ret).err)
        /\ serverNode = None
        /\ userNodes = None

(* C10: when a non-revoked user's ordinal is outside the range, what       *)
(* buildNodes returns is an error, not descriptors; every member address   *)
(* of a successful build is inside the range.                              *)
C10_OutOfRangeOrdinalFails ==
    (IsSome(ret) /\ IsSome(cidr)) =>
        LET c == Val(cidr)
        IN /\ (\E i \in 1..Len(server.users) :
                  ~server.users[i].revoked /\ ~InRange(c, GetNth(c, i)))
               => (IsSome(ret) /\ IsSome(Val(ret).err))
           /\ Built =>
                \A j \in 1..Len(RetUsers) :
                    \E a \in c.network..(c.network + c.size - 1) :
                        RetUsers[j].interface.address = IpString(a) \o "/32"

(* C9: the member list and the server's peer list have one entry per       *)
(* non-revoked user, in the original order (the j-th peer and the j-th     *)
(* member node belong to the j-th non-revoked user), and every member node *)
(* has exactly one peer.                                                   *)
C9_OrderAndCounts ==
    Built =>
        LET nr == NonRevoked(server.users)
        IN /\ Len(RetUsers) = Len(nr)
           /\ Len(RetServer.peers) = Len(nr)
           /\ \A j \in 1..Len(nr) :
                /\ RetServer.peers[j].publicKey = server.users[nr[j]].publicKey
                /\ RetServer.peers[j].allowedIps = Allocate(Val(cidr), nr[j])
                /\ RetUsers[j].interface.address = RetServer.peers[j].allowedIps
                /\ Len(RetUsers[j].peers) = 1

(* a build of three users whose middle one is revoked *)
C9_Witness ==
    /\ Built
    /\ Len(server.users) >= 3
    /\ ~server.users[1].revoked
    /\ server.users[2].revoked
    /\ ~server.users[3].revoked
    /\ Len(RetUsers) = 2

====
